---- MODULE Spec2Model ----
(***************************************************************************)
(* Model of keppel's rate-limit admission check (api.CheckRateLimit), the  *)
(* Registry V2 error envelope (keppel.RegistryV2Error) and the in-memory   *)
(* inbound cache driver used by the unit tests (test.InboundCacheDriver).  *)
(*                                                                         *)
(* Durations and timestamps are counted in milliseconds.  Go counts both   *)
(* in nanoseconds; every value drawn here is a whole number of             *)
(* milliseconds, so every quotient, comparison and difference below is the *)
(* one the nanosecond arithmetic gives.                                    *)
(***************************************************************************)
EXTENDS Integers, Sequences, FiniteSets, TLC

VARIABLES
    call,       \* inputs of the last CheckRateLimit call (incl. what the driver answers)
    ret,        \* error value returned by the last CheckRateLimit call
    driverLog,  \* RateLimitAllows invocations made by the last CheckRateLimit call
    Entries,    \* InboundCacheDriver.Entries: ImageReference -> inboundCacheEntry
    stores,     \* history: the StoreManifest calls so far, in arrival order
    lastOp,     \* the last cache operation with its arguments and return values
    env,        \* the *RegistryV2Error at hand (NoError while there is none)
    origin,     \* how env was made: by With, by AsRegistryV2Error or by a With* decoration
    written,    \* the responses written from env since it was made
    factories,  \* the driver registry: PluginTypeID -> registered factory
    regOp,      \* the last registry operation with its result
    gor,        \* the goroutines that call the cache driver concurrently
    crashed,    \* the Go runtime has stopped the process (fatal error)
    heap,       \* allocated RegistryV2Error objects, by address
    reqs        \* concurrent requests: what the driver answered, what CheckRateLimit returned

rlVars == <<call, ret, driverLog>>
cacheVars == <<Entries, stores, lastOp>>
envVars == <<env, origin, written>>
regVars == <<factories, regOp>>
conVars == <<gor, crashed>>
heapVars == <<heap, reqs>>
vars == <<rlVars, cacheVars, envVars, regVars, conVars, heapVars>>

-----------------------------------------------------------------------------
(* Bounds of the model *)

\* RetryAfter is drawn from whole seconds -MaxRetrySeconds..MaxRetrySeconds
\* plus a sub-second part, and the 90 s of the documented example.
MaxRetrySeconds == 2

\* Timestamps are drawn from j * MaxAge and j * MaxAge + 1 ms, j in 0..MaxEpoch.
MaxEpoch == 1

\* At most this many StoreManifest calls are recorded in one behaviour.
MaxStores == 2

\* At most this many responses are written from one envelope.
MaxWrites == 2

-----------------------------------------------------------------------------
(* Error values *)

\* Go's nil error.
NoError == [kind |-> "nil"]

\* An error that is no RegistryV2Error, identified by its Error() text.
PlainError(text) == [kind |-> "error", text |-> text]

\* database/sql's ErrNoRows.
ErrNoRows == PlainError("sql: no rows in result set")

\* The goroutines that use one driver instance at the same time.
Goroutines == {"g1", "g2"}

\* A goroutine that is in no driver call and has made none.
IdleGoroutine == [pc |-> "idle", op |-> "none"]

\* The requests served at the same time.
Requests == {"r1", "r2"}

\* No envelope made, no response written.
InitEnvVars == env = NoError /\ origin = [how |-> "none"] /\ written = <<>>

\* No factory registered.
InitRegVars == factories = <<>> /\ regOp = [op |-> "none"]

\* No goroutine in a driver call.
InitConVars == gor = [g \in Goroutines |-> IdleGoroutine] /\ crashed = FALSE

\* No envelope allocated, no request answered.
InitHeapVars == heap = <<>> /\ reqs = <<>>

-----------------------------------------------------------------------------
(* RegistryV2ErrorCode and its tables *)

ErrBlobUnknown == "BLOB_UNKNOWN"
ErrBlobUploadInvalid == "BLOB_UPLOAD_INVALID"
ErrBlobUploadUnknown == "BLOB_UPLOAD_UNKNOWN"
ErrDigestInvalid == "DIGEST_INVALID"
ErrManifestBlobUnknown == "MANIFEST_BLOB_UNKNOWN"
ErrManifestInvalid == "MANIFEST_INVALID"
ErrManifestUnknown == "MANIFEST_UNKNOWN"
ErrManifestUnverified == "MANIFEST_UNVERIFIED"
ErrNameInvalid == "NAME_INVALID"
ErrNameUnknown == "NAME_UNKNOWN"
ErrSizeInvalid == "SIZE_INVALID"
ErrTagInvalid == "TAG_INVALID"
ErrUnauthorized == "UNAUTHORIZED"
ErrDenied == "DENIED"
ErrUnsupported == "UNSUPPORTED"
ErrUnknown == "UNKNOWN"
ErrUnavailable == "UNAVAILABLE"
ErrTooManyRequests == "TOOMANYREQUESTS"

RegistryV2ErrorCodes ==
    { ErrBlobUnknown, ErrBlobUploadInvalid, ErrBlobUploadUnknown, ErrDigestInvalid,
      ErrManifestBlobUnknown, ErrManifestInvalid, ErrManifestUnknown,
      ErrManifestUnverified, ErrNameInvalid, ErrNameUnknown, ErrSizeInvalid,
      ErrTagInvalid, ErrUnauthorized, ErrDenied, ErrUnsupported, ErrUnknown,
      ErrUnavailable, ErrTooManyRequests }

apiErrorMessages ==
    (ErrBlobUnknown :> "blob unknown to registry")
    @@ (ErrBlobUploadInvalid :> "blob upload invalid")
    @@ (ErrBlobUploadUnknown :> "blob upload unknown to registry")
    @@ (ErrDigestInvalid :> "provided digest did not match uploaded content")
    @@ (ErrManifestBlobUnknown :> "manifest blob unknown to registry")
    @@ (ErrManifestInvalid :> "manifest invalid")
    @@ (ErrManifestUnknown :> "manifest unknown")
    @@ (ErrManifestUnverified :> "manifest failed signature verification")
    @@ (ErrNameInvalid :> "invalid repository name")
    @@ (ErrNameUnknown :> "repository name not known to registry")
    @@ (ErrSizeInvalid :> "provided length did not match content length")
    @@ (ErrTagInvalid :> "manifest tag did not match URI")
    @@ (ErrUnauthorized :> "authentication required")
    @@ (ErrDenied :> "requested access to the resource is denied")
    @@ (ErrUnsupported :> "operation is unsupported")
    @@ (ErrUnknown :> "unknown error")
    @@ (ErrUnavailable :> "registry is currently unavailable")
    @@ (ErrTooManyRequests :> "too many requests; please slow down")

\* net/http status codes used by the table.
StatusBadRequest == 400
StatusUnauthorized == 401
StatusNotFound == 404
StatusMethodNotAllowed == 405
StatusTooManyRequests == 429
StatusInternalServerError == 500
StatusServiceUnavailable == 503

\* The table with TOOMANYREQUESTS answered as 503 (mutant of apiErrorStatusCodes).
apiErrorStatusCodes_TooManyAsUnavailable ==
    [c \in RegistryV2ErrorCodes |->
        CASE c \in {ErrBlobUnknown, ErrBlobUploadUnknown, ErrManifestBlobUnknown,
                    ErrManifestUnknown, ErrNameUnknown} -> StatusNotFound
          [] c \in {ErrUnauthorized, ErrDenied} -> StatusUnauthorized
          [] c = ErrUnsupported -> StatusMethodNotAllowed
          [] c = ErrUnknown -> StatusInternalServerError
          [] c \in {ErrUnavailable, ErrTooManyRequests} -> StatusServiceUnavailable
          [] OTHER -> StatusBadRequest]

apiErrorStatusCodes ==
    (ErrBlobUnknown :> StatusNotFound)
    @@ (ErrBlobUploadInvalid :> StatusBadRequest)
    @@ (ErrBlobUploadUnknown :> StatusNotFound)
    @@ (ErrDigestInvalid :> StatusBadRequest)
    @@ (ErrManifestBlobUnknown :> StatusNotFound)
    @@ (ErrManifestInvalid :> StatusBadRequest)
    @@ (ErrManifestUnknown :> StatusNotFound)
    @@ (ErrManifestUnverified :> StatusBadRequest)
    @@ (ErrNameInvalid :> StatusBadRequest)
    @@ (ErrNameUnknown :> StatusNotFound)
    @@ (ErrSizeInvalid :> StatusBadRequest)
    @@ (ErrTagInvalid :> StatusBadRequest)
    @@ (ErrUnauthorized :> StatusUnauthorized)
    @@ (ErrDenied :> StatusUnauthorized)
    @@ (ErrUnsupported :> StatusMethodNotAllowed)
    @@ (ErrUnknown :> StatusInternalServerError)
    @@ (ErrUnavailable :> StatusServiceUnavailable)
    @@ (ErrTooManyRequests :> StatusTooManyRequests)

-----------------------------------------------------------------------------
(* RegistryV2Error *)

\* A nil Detail (Detail is `any`; a string detail is the one-element sequence).
NilDetail == <<>>

\* A nil http.Header: the map with no keys.
NilHeaders == <<>>

IsRegistryV2Error(e) == e.kind = "RegistryV2Error"

\* With without the default message for an empty msg (mutant of With).
With_NoDefaultMessage(c, msg) ==
    [kind |-> "RegistryV2Error",
     Code |-> c,
     Message |-> msg,
     Detail |-> NilDetail,
     Status |-> 0,
     Headers |-> NilHeaders]

\* RegistryV2ErrorCode.With, called without format arguments.
With(c, msg) ==
    [kind |-> "RegistryV2Error",
     Code |-> c,
     Message |-> IF msg = "" THEN apiErrorMessages[c] ELSE msg,
     Detail |-> NilDetail,
     Status |-> 0,
     Headers |-> NilHeaders]

\* http.CanonicalHeaderKey on the header names used here: the first letter
\* and every letter after a hyphen in upper case, the rest in lower case.
CanonicalHeaderKey(key) ==
    CASE key \in {"retry-after", "Retry-after", "RETRY-AFTER", "Retry-After"} -> "Retry-After"
      [] key \in {"content-type", "Content-type", "Content-Type"} -> "Content-Type"
      [] OTHER -> key

\* RegistryV2Error.WithHeader: e.Headers[CanonicalHeaderKey(key)] = values.
WithHeader(e, key, values) ==
    LET k == CanonicalHeaderKey(key)
    IN  [e EXCEPT !.Headers =
            [h \in (DOMAIN e.Headers) \cup {k} |-> IF h = k THEN values ELSE e.Headers[h]]]

\* The status the Write* methods send for an envelope: the table's status when
\* Status is 0, Status itself otherwise.
WrittenStatus(e) ==
    IF e.Status = 0 THEN apiErrorStatusCodes[e.Code] ELSE e.Status

-----------------------------------------------------------------------------
(* Arithmetic and formatting used by CheckRateLimit *)

\* time.Second, in the model's unit (milliseconds).
Second == 1000

\* Go's integer division, rounding up instead of truncating (mutant of GoDiv).
GoDiv_RoundUp(a, b) == -((-a) \div b)

\* Go's integer division for b > 0: the quotient is truncated toward zero.
GoDiv(a, b) == IF a >= 0 THEN a \div b ELSE -((-a) \div b)

\* keppel.AtLeastZero: a negative value becomes 0, any other is kept (as uint64).
AtLeastZero(x) == IF x < 0 THEN 0 ELSE x

DecimalDigits == <<"0", "1", "2", "3", "4", "5", "6", "7", "8", "9">>

RECURSIVE FormatUint(_)
\* strconv.FormatUint(n, 10): the decimal digits of n, most significant first.
FormatUint(n) ==
    IF n < 10 THEN DecimalDigits[n + 1]
    ELSE FormatUint(n \div 10) \o DecimalDigits[(n % 10) + 1]

-----------------------------------------------------------------------------
(* CheckRateLimit *)

\* keppel.UserType values; PeerUser and TrivyUser are the two the code names.
RegularUser == "RegularUser"
AnonymousUser == "AnonymousUser"
PeerUser == "PeerUser"
TrivyUser == "TrivyUser"
UserTypes == {RegularUser, AnonymousUser, PeerUser, TrivyUser}

\* rle: nil, or a configured engine.
NilEngine == "nil"
ConfiguredEngine == "engine"
Engines == {NilEngine, ConfiguredEngine}

Accounts == {"account1", "account2"}
RateLimitedActions == {"pullblob", "pushmanifest"}
Amounts == {1, 2}

\* What RateLimitAllows can report as RetryAfter (milliseconds).
SubSeconds == {0, 1, 450, 999}
RetryAfters ==
    { s * Second + f : s \in (-MaxRetrySeconds)..MaxRetrySeconds, f \in SubSeconds }
    \cup { 90 * Second }

\* What RateLimitAllows can return as err: nil, a backend fault, a cancelled
\* context, or an error that is itself an envelope.
DriverErrors ==
    { NoError,
      PlainError("rate limit backend unreachable"),
      PlainError("context canceled"),
      With(ErrUnavailable, "") }

\* The exemption test with TrivyUser left out (mutant of IsExempt).
IsExempt_PeerOnly(userType) == userType = PeerUser

\* userType == keppel.PeerUser || userType == keppel.TrivyUser
IsExempt(userType) == userType = PeerUser \/ userType = TrivyUser

\* The driver asked before the exemption is tested (mutant of ReachesDriver).
ReachesDriver_BeforeExemption(rle, userType) == rle # NilEngine

\* Whether control reaches the rle.RateLimitAllows call.
ReachesDriver(rle, userType) == rle # NilEngine /\ ~IsExempt(userType)

\* The function without its nil check, so that a nil engine is asked like a
\* configured one (mutant of CheckRateLimitReturn).
CheckRateLimitReturn_NoNilCheck(rle, userType, allowed, result, err) ==
    IF IsExempt(userType) THEN NoError
    ELSE IF err # NoError THEN err
    ELSE IF ~allowed
         THEN WithHeader(With(ErrTooManyRequests, ""), "Retry-After",
                  <<FormatUint(AtLeastZero(GoDiv(result.RetryAfter, Second)))>>)
         ELSE NoError

\* The function with `allowed` tested before `err` (mutant of CheckRateLimitReturn).
CheckRateLimitReturn_AllowedFirst(rle, userType, allowed, result, err) ==
    IF rle = NilEngine THEN NoError
    ELSE IF IsExempt(userType) THEN NoError
    ELSE IF ~allowed
         THEN WithHeader(With(ErrTooManyRequests, ""), "Retry-After",
                  <<FormatUint(AtLeastZero(GoDiv(result.RetryAfter, Second)))>>)
         ELSE IF err # NoError THEN err
         ELSE NoError

\* The value CheckRateLimit returns, given what RateLimitAllows answers
\* (allowed, result, err) if it is called.
CheckRateLimitReturn(rle, userType, allowed, result, err) ==
    IF rle = NilEngine THEN NoError
    ELSE IF IsExempt(userType) THEN NoError
    ELSE IF err # NoError THEN err
    ELSE IF ~allowed
         THEN WithHeader(With(ErrTooManyRequests, ""), "Retry-After",
                  <<FormatUint(AtLeastZero(GoDiv(result.RetryAfter, Second)))>>)
         ELSE NoError

\* The call has not returned yet.
Pending == [kind |-> "pending"]

\* One call of CheckRateLimit, on the inputs held in `call`.
CheckRateLimit ==
    /\ ret = Pending
    /\ ret' = CheckRateLimitReturn(call.rle, call.userType, call.allowed, call.result, call.err)
    /\ driverLog' = IF ReachesDriver(call.rle, call.userType)
                    THEN <<[account |-> call.account, action |-> call.action,
                            amount |-> call.amount]>>
                    ELSE <<>>
    /\ UNCHANGED <<call, cacheVars, envVars, regVars, conVars, heapVars>>

\* Every input of a CheckRateLimit call, with what RateLimitAllows answers to it.
CallInputs ==
    [rle : Engines, userType : UserTypes, account : Accounts,
     action : RateLimitedActions, amount : Amounts,
     allowed : BOOLEAN, result : [RetryAfter : RetryAfters], err : DriverErrors]

NoOp == [op |-> "none"]

\* A request has arrived and CheckRateLimit is about to run on it; the cache
\* driver is as InboundCacheDriver.Init leaves it.
InitRateLimit ==
    /\ call \in CallInputs
    /\ ret = Pending
    /\ driverLog = <<>>
    /\ Entries = <<>>
    /\ stores = <<>>
    /\ lastOp = NoOp
    /\ InitEnvVars /\ InitRegVars /\ InitConVars /\ InitHeapVars

NextRateLimit == CheckRateLimit

SpecRateLimit == InitRateLimit /\ [][NextRateLimit]_vars

\* Whether the call has returned.
Returned == ret # Pending

-----------------------------------------------------------------------------
(* InboundCacheDriver *)

\* time.Hour, in the model's unit.
Hour == 3600 * Second

\* d.MaxAge as InboundCacheDriver.Init sets it.
MaxAge == 6 * Hour

\* The timestamps the callers pass as `now`.
Times == { j * MaxAge + d : j \in 0..MaxEpoch, d \in {0, 1} }

\* models.ImageReference values used as cache keys.
ImageReferences == {"registry.example.org/library/alpine:3", "registry.example.org/library/nginx:1"}

\* The manifests the callers store: contents (bytes) with their media type.
Manifests ==
    { [contents |-> <<123, 49, 125>>,
       mediaType |-> "application/vnd.docker.distribution.manifest.v2+json"],
      [contents |-> <<123, 50, 125>>,
       mediaType |-> "application/vnd.oci.image.manifest.v1+json"] }

\* A nil []byte.
NilBytes == <<>>

\* time.Time.Add
Add(t, d) == t + d

\* t.After(u)
After(t, u) == t > u

\* The return values of the miss path: nil, "", sql.ErrNoRows.
Miss == [contents |-> NilBytes, mediaType |-> "", err |-> ErrNoRows]

\* LoadManifest without the age test (mutant of LoadManifestReturn).
LoadManifestReturn_NoExpiry(entries, location, now) ==
    IF location \in DOMAIN entries
    THEN [contents |-> entries[location].Contents,
          mediaType |-> entries[location].MediaType, err |-> NoError]
    ELSE Miss

\* LoadManifest with !InsertedAt.Before(maxInsertedAt) for
\* InsertedAt.After(maxInsertedAt) (mutant of LoadManifestReturn).
LoadManifestReturn_NotBefore(entries, location, now) ==
    LET maxInsertedAt == Add(now, -MaxAge)
    IN  IF location \in DOMAIN entries /\ ~(entries[location].InsertedAt < maxInsertedAt)
        THEN [contents |-> entries[location].Contents,
              mediaType |-> entries[location].MediaType, err |-> NoError]
        ELSE Miss

\* What LoadManifest returns on the entry table `entries`.
LoadManifestReturn(entries, location, now) ==
    LET maxInsertedAt == Add(now, -MaxAge)
    IN  IF location \in DOMAIN entries /\ After(entries[location].InsertedAt, maxInsertedAt)
        THEN [contents |-> entries[location].Contents,
              mediaType |-> entries[location].MediaType, err |-> NoError]
        ELSE Miss

\* StoreManifest on a table that is made anew for each store, so that the
\* other keys' entries are lost (mutant of StoreManifestEntries).
StoreManifestEntries_Reset(entries, location, contents, mediaType, now) ==
    [k \in {location} |-> [Contents |-> contents, MediaType |-> mediaType, InsertedAt |-> now]]

\* StoreManifest that keeps the media type of an entry it overwrites (mutant
\* of StoreManifestEntries).
StoreManifestEntries_KeepMediaType(entries, location, contents, mediaType, now) ==
    [k \in (DOMAIN entries) \cup {location} |->
        IF k = location
        THEN [Contents |-> contents,
              MediaType |-> IF location \in DOMAIN entries
                            THEN entries[location].MediaType ELSE mediaType,
              InsertedAt |-> now]
        ELSE entries[k]]

\* StoreManifest that keeps an entry inserted after `now` (mutant of
\* StoreManifestEntries).
StoreManifestEntries_NewestWins(entries, location, contents, mediaType, now) ==
    [k \in (DOMAIN entries) \cup {location} |->
        IF k = location /\ ~(location \in DOMAIN entries /\ entries[location].InsertedAt > now)
        THEN [Contents |-> contents, MediaType |-> mediaType, InsertedAt |-> now]
        ELSE entries[k]]

\* d.Entries after d.Entries[location] = inboundCacheEntry{contents, mediaType, now}.
StoreManifestEntries(entries, location, contents, mediaType, now) ==
    [k \in (DOMAIN entries) \cup {location} |->
        IF k = location
        THEN [Contents |-> contents, MediaType |-> mediaType, InsertedAt |-> now]
        ELSE entries[k]]

\* LoadManifest that deletes the entry it finds expired (mutant of
\* LoadManifestEntries).
LoadManifestEntries_Evict(entries, location, now) ==
    IF location \in DOMAIN entries /\ ~After(entries[location].InsertedAt, Add(now, -MaxAge))
    THEN [k \in (DOMAIN entries) \ {location} |-> entries[k]]
    ELSE entries

\* d.Entries after LoadManifest, which only reads the map.
LoadManifestEntries(entries, location, now) == entries

\* One call of LoadManifest.
LoadManifest(location, now) ==
    /\ LET r == LoadManifestReturn(Entries, location, now)
       IN  lastOp' = [op |-> "LoadManifest", location |-> location, now |-> now,
                      contents |-> r.contents, mediaType |-> r.mediaType, err |-> r.err]
    /\ Entries' = LoadManifestEntries(Entries, location, now)
    /\ UNCHANGED <<stores, rlVars, envVars, regVars, conVars, heapVars>>

\* One call of StoreManifest.
StoreManifest(location, contents, mediaType, now) ==
    /\ Len(stores) < MaxStores
    /\ Entries' = StoreManifestEntries(Entries, location, contents, mediaType, now)
    /\ stores' = Append(stores, [location |-> location, contents |-> contents,
                                 mediaType |-> mediaType, now |-> now])
    /\ lastOp' = [op |-> "StoreManifest", location |-> location, now |-> now,
                  contents |-> contents, mediaType |-> mediaType, err |-> NoError]
    /\ UNCHANGED <<rlVars, envVars, regVars, conVars, heapVars>>

\* The CheckRateLimit inputs held while the cache is exercised.
NoCall ==
    [rle |-> NilEngine, userType |-> RegularUser, account |-> "account1",
     action |-> "pullblob", amount |-> 1, allowed |-> TRUE,
     result |-> [RetryAfter |-> 0], err |-> NoError]

\* The driver as InboundCacheDriver.Init leaves it: an empty entry table.
InitCache ==
    /\ call = NoCall
    /\ ret = Pending
    /\ driverLog = <<>>
    /\ Entries = <<>>
    /\ stores = <<>>
    /\ lastOp = NoOp
    /\ InitEnvVars /\ InitRegVars /\ InitConVars /\ InitHeapVars

NextCache ==
    \/ \E location \in ImageReferences, now \in Times : LoadManifest(location, now)
    \/ \E location \in ImageReferences, m \in Manifests, now \in Times :
          StoreManifest(location, m.contents, m.mediaType, now)

SpecCache == InitCache /\ [][NextCache]_vars

-----------------------------------------------------------------------------
(* InboundCacheDriver called from several goroutines *)

(* d.Entries is a plain Go map and the driver holds no lock.  A map access  *)
(* is not atomic: it begins and ends, and other goroutines run in between.  *)
(* A write that overlaps another access of the map is a data race, whose    *)
(* outcome the language leaves open: the runtime may stop the process       *)
(* ("concurrent map read and map write"), or the access completes with the  *)
(* value it should have or with a torn one.                                 *)

InAccess(g) == gor[g].pc \in {"reading", "writing"}

\* The goroutines, with `hit` marked as having raced.
MarkRaced(hit) ==
    [h \in Goroutines |-> IF h \in hit THEN [gor[h] EXCEPT !.raced = TRUE] ELSE gor[h]]

\* LoadManifest begins: the goroutine starts to read d.Entries[location].
BeginLoad(g, location, now) ==
    /\ ~crashed
    /\ gor[g].pc = "idle"
    /\ LET writers == { h \in Goroutines \ {g} : gor[h].pc = "writing" }
       IN  gor' = [MarkRaced(writers) EXCEPT ![g] =
                      [pc |-> "reading", op |-> "LoadManifest", location |-> location,
                       now |-> now, raced |-> writers # {}]]
    /\ UNCHANGED <<crashed, rlVars, cacheVars, envVars, regVars, heapVars>>

\* What a read that raced with a write can return: the regular result on the
\* table as it is, or an entry torn between the manifests being stored.
RacyLoadReturns(location, now) ==
    { LoadManifestReturn(Entries, location, now) }
    \cup { [contents |-> a.contents, mediaType |-> b.mediaType, err |-> NoError] :
              a \in Manifests, b \in Manifests }

\* LoadManifest returns.
EndLoad(g) ==
    /\ ~crashed
    /\ gor[g].pc = "reading"
    /\ \E r \in IF gor[g].raced
                THEN RacyLoadReturns(gor[g].location, gor[g].now)
                ELSE { LoadManifestReturn(Entries, gor[g].location, gor[g].now) } :
          gor' = [gor EXCEPT ![g] =
                     [pc |-> "idle", op |-> "LoadManifest", location |-> gor[g].location,
                      now |-> gor[g].now, contents |-> r.contents,
                      mediaType |-> r.mediaType, err |-> r.err]]
    /\ UNCHANGED <<crashed, rlVars, cacheVars, envVars, regVars, heapVars>>

\* StoreManifest begins: the goroutine starts to write d.Entries[location].
BeginStore(g, location, contents, mediaType, now) ==
    /\ ~crashed
    /\ gor[g].pc = "idle"
    /\ LET others == { h \in Goroutines \ {g} : InAccess(h) }
       IN  gor' = [MarkRaced(others) EXCEPT ![g] =
                      [pc |-> "writing", op |-> "StoreManifest", location |-> location,
                       now |-> now, contents |-> contents, mediaType |-> mediaType,
                       raced |-> others # {}]]
    /\ UNCHANGED <<crashed, rlVars, cacheVars, envVars, regVars, heapVars>>

\* StoreManifest returns, the entry written; a write that raced may leave an
\* entry with the media type of another manifest.
EndStore(g) ==
    /\ ~crashed
    /\ gor[g].pc = "writing"
    /\ \E mt \in IF gor[g].raced
                 THEN { m.mediaType : m \in Manifests }
                 ELSE { gor[g].mediaType } :
          Entries' = StoreManifestEntries(Entries, gor[g].location, gor[g].contents,
                                          mt, gor[g].now)
    /\ gor' = [gor EXCEPT ![g] =
                  [pc |-> "idle", op |-> "StoreManifest", location |-> gor[g].location,
                   now |-> gor[g].now, contents |-> gor[g].contents,
                   mediaType |-> gor[g].mediaType, err |-> NoError]]
    /\ UNCHANGED <<crashed, stores, lastOp, rlVars, envVars, regVars, heapVars>>

\* The runtime detects the concurrent map access and stops the process.
FatalConcurrentMapAccess(g) ==
    /\ ~crashed
    /\ InAccess(g)
    /\ gor[g].raced
    /\ crashed' = TRUE
    /\ UNCHANGED <<gor, rlVars, cacheVars, envVars, regVars, heapVars>>

\* The timestamps that calls made at the same moment pass as `now`.
ConcurrentTimes == {0, 1}

NextConcurrent ==
    \/ \E g \in Goroutines, location \in ImageReferences, now \in ConcurrentTimes :
          BeginLoad(g, location, now)
    \/ \E g \in Goroutines : EndLoad(g)
    \/ \E g \in Goroutines, location \in ImageReferences, m \in Manifests,
          now \in ConcurrentTimes :
          BeginStore(g, location, m.contents, m.mediaType, now)
    \/ \E g \in Goroutines : EndStore(g)
    \/ \E g \in Goroutines : FatalConcurrentMapAccess(g)

SpecConcurrent == InitCache /\ [][NextConcurrent]_vars

\* C11 as claimed: LoadManifest and StoreManifest of one driver instance can be
\* called concurrently without locking by the callers: no write of the entry
\* table overlaps another access of it, the process is not stopped for it, and
\* every LoadManifest that hits returns the contents and the media type of one
\* single StoreManifest.
C11_Original ==
    /\ \A g \in Goroutines, h \in Goroutines :
          (g # h /\ gor[g].pc = "writing") => gor[h].pc \notin {"reading", "writing"}
    /\ ~crashed
    /\ \A g \in Goroutines :
          (gor[g].pc = "idle" /\ gor[g].op = "LoadManifest" /\ gor[g].err = NoError) =>
              [contents |-> gor[g].contents, mediaType |-> gor[g].mediaType] \in Manifests

-----------------------------------------------------------------------------
(* Claims about CheckRateLimit, checked under SpecRateLimit *)

\* The call was made on a configured engine by a caller that is not exempt.
NonExemptCall ==
    /\ Returned
    /\ call.rle = ConfiguredEngine
    /\ call.userType \notin {PeerUser, TrivyUser}

\* The call was answered "denied" by the driver, without an error.
DeniedCall == NonExemptCall /\ call.err = NoError /\ ~call.allowed

\* C1: with a configured engine, a call whose identity is PeerUser or
\* TrivyUser returns nil, whatever the driver would answer (allowed, denied
\* with any RetryAfter, or an error) and whatever account, action and amount.
C1_ExemptReturnsNil ==
    (Returned /\ call.rle = ConfiguredEngine /\ call.userType \in {PeerUser, TrivyUser})
        => ret = NoError

\* C1 witness: a TrivyUser call on a configured engine that the driver would deny.
C1_Witness ==
    /\ Returned
    /\ call.rle = ConfiguredEngine
    /\ call.userType = TrivyUser
    /\ ~call.allowed
    /\ call.err = NoError
    /\ ret = NoError

\* C2: with no engine configured (rle is nil) CheckRateLimit returns nil for
\* every user type, account, action and amount.
C2_NilEngineReturnsNil ==
    (Returned /\ call.rle = NilEngine) => ret = NoError

\* C2 witness: a regular user's call, which a driver would deny, with rle nil.
C2_Witness ==
    /\ Returned
    /\ call.rle = NilEngine
    /\ call.userType = RegularUser
    /\ ~call.allowed
    /\ ret = NoError

\* C3: for a non-exempt caller on a configured engine, a driver answer
\* allowed=false without error gives an envelope with code TOOMANYREQUESTS that
\* is written with status 429 and carries exactly one Retry-After value; a
\* driver answer allowed=true without error gives nil.
C3_DenialShape ==
    (NonExemptCall /\ call.err = NoError) =>
        IF call.allowed
        THEN ret = NoError
        ELSE /\ IsRegistryV2Error(ret)
             /\ ret.Code = "TOOMANYREQUESTS"
             /\ WrittenStatus(ret) = 429
             /\ "Retry-After" \in DOMAIN ret.Headers
             /\ Len(ret.Headers["Retry-After"]) = 1

\* C3 witness: a denial with RetryAfter = 90 s.
C3_Witness ==
    /\ DeniedCall
    /\ call.result.RetryAfter = 90 * Second
    /\ IsRegistryV2Error(ret)
    /\ ret.Headers["Retry-After"] = <<"90">>

\* C4: for a non-exempt caller on a configured engine, a driver error is
\* returned as it is: no TOOMANYREQUESTS envelope is made of it when the driver
\* also says allowed=false, and it is not dropped when the driver says
\* allowed=true.
C4_DriverErrorReturned ==
    (NonExemptCall /\ call.err # NoError) => ret = call.err

\* C4 witness: the driver fails and reports allowed=false.
C4_Witness ==
    /\ NonExemptCall
    /\ call.err = PlainError("rate limit backend unreachable")
    /\ ~call.allowed
    /\ ret = call.err

\* max(0, floor(d / 1 second)), with \div the floor division.
FloorSeconds(d) == IF d \div Second < 0 THEN 0 ELSE d \div Second

\* C5: on denial the Retry-After value is the decimal form of
\* max(0, floor(RetryAfter / 1 second)): never negative, a sub-second
\* remainder rounded down (450ms gives "0", 1.999s gives "1", 90s gives "90"),
\* and a zero or negative RetryAfter gives "0".
C5_RetryAfterValue ==
    DeniedCall =>
        LET d == call.result.RetryAfter
            v == ret.Headers["Retry-After"][1]
        IN  /\ v = FormatUint(FloorSeconds(d))
            /\ (d <= 0 => v = "0")
            /\ (d = 450 => v = "0")
            /\ (d = 999 => v = "0")
            /\ (d = 1000 => v = "1")
            /\ (d = 1999 => v = "1")
            /\ (d = 90000 => v = "90")

\* C5 witness: a denial with RetryAfter = 1.999 s, answered with "1".
C5_Witness ==
    /\ DeniedCall
    /\ call.result.RetryAfter = 1999
    /\ ret.Headers["Retry-After"] = <<"1">>

-----------------------------------------------------------------------------
(* Claims about the inbound cache, checked under SpecCache *)

\* The positions in `stores` of the stores for key k.
StoreIdx(k) == { i \in 1..Len(stores) : stores[i].location = k }

\* The greatest element of a non-empty set of integers.
Greatest(S) == CHOOSE x \in S : \A y \in S : y <= x

Loaded == lastOp.op = "LoadManifest"

\* The return values of the last LoadManifest.
LoadResult == [contents |-> lastOp.contents, mediaType |-> lastOp.mediaType, err |-> lastOp.err]

\* C6: after StoreManifest(k, b, mt, t0) with no later store for k (stores for
\* other keys may come in between), LoadManifest(k, now) with
\* now - t0 < MaxAge returns b and mt without error.
C6_RoundTrip ==
    Loaded =>
        LET S == StoreIdx(lastOp.location)
        IN  (S # {} /\ lastOp.now - stores[Greatest(S)].now < MaxAge) =>
                LoadResult = [contents |-> stores[Greatest(S)].contents,
                              mediaType |-> stores[Greatest(S)].mediaType,
                              err |-> NoError]

\* C6 witness: k is stored, then another key, then k is loaded at a later time
\* less than MaxAge after its store, and the stored manifest is returned.
C6_Witness ==
    /\ Loaded
    /\ Len(stores) = 2
    /\ stores[1].location = lastOp.location
    /\ stores[2].location # lastOp.location
    /\ lastOp.now > stores[1].now
    /\ lastOp.now - stores[1].now < MaxAge
    /\ lastOp.err = NoError
    /\ lastOp.contents = stores[1].contents

\* C7: when the latest store for k was at t0, LoadManifest(k, now) with
\* now - t0 > MaxAge is a miss whose result is that of a load of a key never
\* stored (no contents, empty media type, sql.ErrNoRows), while the driver
\* still holds the expired entry.
C7_Expiry ==
    Loaded =>
        LET k == lastOp.location
            S == StoreIdx(k)
        IN  (S # {} /\ lastOp.now - stores[Greatest(S)].now > MaxAge) =>
                /\ LoadResult = [contents |-> <<>>, mediaType |-> "",
                                 err |-> PlainError("sql: no rows in result set")]
                /\ LoadResult = LoadManifestReturn(<<>>, k, lastOp.now)
                /\ k \in DOMAIN Entries
                /\ Entries[k].InsertedAt = stores[Greatest(S)].now

\* C7 witness: a load more than MaxAge after the only store of its key.
C7_Witness ==
    /\ Loaded
    /\ StoreIdx(lastOp.location) # {}
    /\ lastOp.now - stores[Greatest(StoreIdx(lastOp.location))].now = MaxAge + 1
    /\ lastOp.err = ErrNoRows
    /\ lastOp.location \in DOMAIN Entries

\* C8 as claimed: LoadManifest(k, now) finds the entry if and only if
\* now - InsertedAt <= MaxAge, so an entry of age exactly MaxAge is found.
C8_Original ==
    Loaded =>
        LET k == lastOp.location
        IN  (lastOp.err = NoError) <=>
                (k \in DOMAIN Entries /\ lastOp.now - Entries[k].InsertedAt <= MaxAge)

\* C8 as amended: LoadManifest(k, now) finds the entry if and only if
\* now - InsertedAt < MaxAge; an entry of age exactly MaxAge is a miss.
C8_StrictBoundary ==
    Loaded =>
        LET k == lastOp.location
        IN  /\ (lastOp.err = NoError) <=>
                  (k \in DOMAIN Entries /\ lastOp.now - Entries[k].InsertedAt < MaxAge)
            /\ (k \in DOMAIN Entries /\ lastOp.now - Entries[k].InsertedAt = MaxAge)
                  => LoadResult = Miss

\* C8 witness: a load of an entry whose age is exactly MaxAge, which misses.
C8_Witness ==
    /\ Loaded
    /\ lastOp.location \in DOMAIN Entries
    /\ lastOp.now = Entries[lastOp.location].InsertedAt + MaxAge
    /\ lastOp.err = ErrNoRows

\* C9: after StoreManifest(k, b1, mt1, t0) and then StoreManifest(k, b2, mt2, t1)
\* with t1 > t0, LoadManifest(k, now) with now - t1 < MaxAge returns b2 and
\* mt2, both from the second store, also when the first entry had expired at t1.
C9_Overwrite ==
    Loaded =>
        LET S == StoreIdx(lastOp.location)
        IN  Cardinality(S) >= 2 =>
                LET j == Greatest(S)
                    i == Greatest(S \ {j})
                IN  (stores[j].now > stores[i].now /\ lastOp.now - stores[j].now < MaxAge) =>
                        /\ lastOp.err = NoError
                        /\ lastOp.contents = stores[j].contents
                        /\ lastOp.mediaType = stores[j].mediaType

\* C9 witness: the second store has another manifest and comes when the first
\* entry has expired; the load returns the second manifest.
C9_Witness ==
    /\ Loaded
    /\ Len(stores) = 2
    /\ stores[1].location = lastOp.location
    /\ stores[2].location = lastOp.location
    /\ stores[2].now - stores[1].now > MaxAge
    /\ stores[1].contents # stores[2].contents
    /\ stores[1].mediaType # stores[2].mediaType
    /\ lastOp.now - stores[2].now < MaxAge
    /\ lastOp.contents = stores[2].contents
    /\ lastOp.mediaType = stores[2].mediaType

-----------------------------------------------------------------------------
(* RegistryV2Error: AsRegistryV2Error, the With* decorations and the writers *)

\* An error that wraps `inner` (fmt.Errorf with %w), with its own Error() text.
Wrapped(text, inner) == [kind |-> "wrapped", text |-> text, inner |-> inner]

\* RegistryV2Error.WithDetail
WithDetail(e, detail) == [e EXCEPT !.Detail = detail]

\* RegistryV2Error.WithStatus
WithStatus(e, status) == [e EXCEPT !.Status = status]

\* RegistryV2Error.Error, for a nil or a string Detail.
Error(e) ==
    IF e.Detail # NilDetail THEN e.Message \o ": " \o e.Detail[1] ELSE e.Message

\* err.Error() of any error value.
ErrorText(err) == IF IsRegistryV2Error(err) THEN Error(err) ELSE err.text

RECURSIVE ErrextAs(_)
\* errext.As[*RegistryV2Error](err): the first *RegistryV2Error in the chain
\* of wrapped errors, if there is one.
ErrextAs(err) ==
    IF IsRegistryV2Error(err) THEN [ok |-> TRUE, rerr |-> err]
    ELSE IF err.kind = "wrapped" THEN ErrextAs(err.inner)
    ELSE [ok |-> FALSE]

\* AsRegistryV2Error with a type assertion on err itself for errext.As, which
\* does not look into wrapped errors (mutant of AsRegistryV2Error).
AsRegistryV2Error_NoUnwrap(err) ==
    IF IsRegistryV2Error(err) THEN err ELSE With(ErrUnknown, ErrorText(err))

\* AsRegistryV2Error
AsRegistryV2Error(err) ==
    LET found == ErrextAs(err)
    IN  IF found.ok THEN found.rerr ELSE With(ErrUnknown, ErrorText(err))

\* The response headers after `for k, v := range e.Headers { w.Header()[k] = v }`
\* on the headers `h` set before.
CopyHeaders(h, e) ==
    [k \in (DOMAIN h) \cup (DOMAIN e.Headers) |->
        IF k \in DOMAIN e.Headers THEN e.Headers[k] ELSE h[k]]

\* The JSON document {"errors":[e]}: Status and Headers are not marshalled.
ErrorsBody(e) ==
    [errors |-> <<[code |-> e.Code, message |-> e.Message, detail |-> e.Detail]>>]

\* The writer with the body written for every method (mutant of
\* WriteAsRegistryV2ResponseTo).
WriteAsRegistryV2ResponseTo_BodyAlways(e, method) ==
    [resp |-> [writer |-> "RegistryV2", method |-> method,
               headers |-> CopyHeaders([k \in {"Content-Type"} |-> <<"application/json">>], e),
               status |-> IF e.Status = 0 THEN apiErrorStatusCodes[e.Code] ELSE e.Status,
               bodyWritten |-> TRUE,
               body |-> ErrorsBody(e)],
     e |-> e]

\* RegistryV2Error.WriteAsRegistryV2ResponseTo: the response written and the
\* envelope as the call leaves it.
WriteAsRegistryV2ResponseTo(e, method) ==
    [resp |-> [writer |-> "RegistryV2", method |-> method,
               headers |-> CopyHeaders([k \in {"Content-Type"} |-> <<"application/json">>], e),
               status |-> IF e.Status = 0 THEN apiErrorStatusCodes[e.Code] ELSE e.Status,
               bodyWritten |-> method # "HEAD",
               body |-> IF method # "HEAD" THEN ErrorsBody(e) ELSE [errors |-> <<>>]],
     e |-> e]

\* The writer with the resolved status assigned to e.Status instead of to a
\* local variable (mutant of WriteAsAuthResponseTo).
WriteAsAuthResponseTo_StoresStatus(e) ==
    LET status == IF e.Status = 0 THEN apiErrorStatusCodes[e.Code] ELSE e.Status
    IN  [resp |-> [writer |-> "Auth", method |-> "GET",
                   headers |-> [k \in (DOMAIN e.Headers) \cup {"Content-Type"} |->
                                   IF k = "Content-Type" THEN <<"application/json">>
                                   ELSE e.Headers[k]],
                   status |-> status,
                   bodyWritten |-> TRUE,
                   body |-> [details |-> Error(e)]],
         e |-> [e EXCEPT !.Status = status]]

\* RegistryV2Error.WriteAsAuthResponseTo; respondwith.JSON sets the content
\* type, writes the status and the JSON body.
WriteAsAuthResponseTo(e) ==
    LET status == IF e.Status = 0 THEN apiErrorStatusCodes[e.Code] ELSE e.Status
    IN  [resp |-> [writer |-> "Auth", method |-> "GET",
                   headers |-> [k \in (DOMAIN e.Headers) \cup {"Content-Type"} |->
                                   IF k = "Content-Type" THEN <<"application/json">>
                                   ELSE e.Headers[k]],
                   status |-> status,
                   bodyWritten |-> TRUE,
                   body |-> [details |-> Error(e)]],
         e |-> e]

\* RegistryV2Error.WriteAsTextTo
WriteAsTextTo(e) ==
    [resp |-> [writer |-> "Text", method |-> "GET",
               headers |-> CopyHeaders(<<>>, e),
               status |-> IF e.Status = 0 THEN apiErrorStatusCodes[e.Code] ELSE e.Status,
               bodyWritten |-> TRUE,
               body |-> [text |-> Error(e) \o "\n"]],
     e |-> e]

\* The messages passed to With: none, or a message of the caller's.
Messages == {"", "quota exceeded"}

\* The errors handed to AsRegistryV2Error.
GenericErrors ==
    { PlainError(""),
      PlainError("connection refused"),
      ErrNoRows,
      Wrapped("while fetching manifest: connection refused", PlainError("connection refused")) }

EnvelopeErrors ==
    { With(ErrManifestUnknown, ""),
      WithStatus(With(ErrDenied, "no pull permission"), 403),
      Wrapped("during pull: manifest unknown", With(ErrManifestUnknown, "")),
      Wrapped("request failed",
              Wrapped("during pull: too many requests",
                      WithHeader(With(ErrTooManyRequests, ""), "Retry-After", <<"7">>))) }

\* The request methods of the Registry V2 API used here.
Methods == {"GET", "HEAD"}

\* code.With(msg)
MakeWith(c, msg) ==
    /\ env' = With(c, msg)
    /\ origin' = [how |-> "With", code |-> c, msg |-> msg, built |-> With(c, msg)]
    /\ written' = <<>>
    /\ UNCHANGED <<rlVars, cacheVars, regVars, conVars, heapVars>>

\* AsRegistryV2Error(err)
MakeAs(err) ==
    /\ env' = AsRegistryV2Error(err)
    /\ origin' = [how |-> "As", err |-> err, built |-> AsRegistryV2Error(err)]
    /\ written' = <<>>
    /\ UNCHANGED <<rlVars, cacheVars, regVars, conVars, heapVars>>

\* The envelope at hand becomes `e` by a With* call.
Decorated(e) ==
    /\ env # NoError
    /\ env' = e
    /\ origin' = [how |-> "Decorate", built |-> e]
    /\ written' = <<>>
    /\ UNCHANGED <<rlVars, cacheVars, regVars, conVars, heapVars>>

DecorateDetail(detail) == Decorated(WithDetail(env, detail))
DecorateStatus(status) == Decorated(WithStatus(env, status))
DecorateHeader(key, values) == Decorated(WithHeader(env, key, values))

\* The envelope at hand is written; `w` is what the writer does.
Wrote(w) ==
    /\ env # NoError
    /\ Len(written) < MaxWrites
    /\ written' = Append(written, w.resp)
    /\ env' = w.e
    /\ UNCHANGED <<origin, rlVars, cacheVars, regVars, conVars, heapVars>>

WriteRegistryV2(method) == Wrote(WriteAsRegistryV2ResponseTo(env, method))
WriteAuth == Wrote(WriteAsAuthResponseTo(env))
WriteText == Wrote(WriteAsTextTo(env))

InitEnvelope ==
    /\ call = NoCall
    /\ ret = Pending
    /\ driverLog = <<>>
    /\ Entries = <<>>
    /\ stores = <<>>
    /\ lastOp = NoOp
    /\ InitEnvVars /\ InitRegVars /\ InitConVars /\ InitHeapVars

NextEnvelope ==
    \/ \E c \in RegistryV2ErrorCodes, msg \in Messages : MakeWith(c, msg)
    \/ \E err \in GenericErrors \cup EnvelopeErrors : MakeAs(err)
    \/ DecorateDetail(<<"repository is read-only">>)
    \/ DecorateStatus(403)
    \/ DecorateHeader("retry-after", <<"30">>)
    \/ \E method \in Methods : WriteRegistryV2(method)
    \/ WriteAuth
    \/ WriteText

SpecEnvelope == InitEnvelope /\ [][NextEnvelope]_vars

-----------------------------------------------------------------------------
(* The inbound cache driver registry and the test driver's registration *)

\* The value a factory of the test package returns: &InboundCacheDriver{}.
NewInboundCacheDriver ==
    [type |-> "test.InboundCacheDriver", MaxAge |-> 0, initialised |-> FALSE]

\* The value a factory of another driver package returns.
OtherDriver(typeID) ==
    [type |-> "other", typeID |-> typeID, MaxAge |-> 0, initialised |-> FALSE]

\* PluginTypeID with an empty identifier (mutant of PluginTypeID).
PluginTypeID_Empty(d) == ""

\* InboundCacheDriver.PluginTypeID
PluginTypeID(d) == "unittest"

\* driver.PluginTypeID() through the InboundCacheDriver interface.
TypeIDOf(driver) ==
    IF driver.type = "test.InboundCacheDriver" THEN PluginTypeID(driver)
    ELSE driver.typeID

\* The factories that init() functions hand to the registry; `site` tells
\* apart two registrations of the same driver type.
Factories ==
    { [site |-> "test.init", makes |-> NewInboundCacheDriver],
      [site |-> "test.init.again", makes |-> NewInboundCacheDriver],
      [site |-> "swift.init", makes |-> OtherDriver("swift")],
      [site |-> "swift.init.again", makes |-> OtherDriver("swift")],
      [site |-> "redis.init", makes |-> OtherDriver("redis")] }

\* The identifiers asked of the registry.
PluginTypeIDs == {"unittest", "swift", "redis", "nonexistent"}

\* The error for an identifier no factory is registered under.
UnknownDriver(id) == [kind |-> "unknown driver", id |-> id]

\* No instance.
NilDriver == [type |-> "nil"]

\* The process has stopped in a panic of a registration.
Panicked == regOp.op = "Add" /\ regOp.panicked

\* InboundCacheDriverRegistry.Add(factory): the factory is registered under
\* the PluginTypeID of the driver it makes; a second registration under the
\* same identifier panics and leaves the registry as it was.
RegistryAdd(factory) ==
    LET id == TypeIDOf(factory.makes)
    IN  /\ ~Panicked
        /\ IF id \in DOMAIN factories
           THEN /\ factories' = factories
                /\ regOp' = [op |-> "Add", id |-> id, factory |-> factory,
                             before |-> factories, panicked |-> TRUE]
           ELSE /\ factories' = (id :> factory) @@ factories
                /\ regOp' = [op |-> "Add", id |-> id, factory |-> factory,
                             before |-> factories, panicked |-> FALSE]
        /\ UNCHANGED <<rlVars, cacheVars, envVars, conVars, heapVars>>

\* Instantiating the driver registered under id: a new value of its factory,
\* or the unknown-driver error.
RegistryInstantiate(id) ==
    /\ ~Panicked
    /\ regOp' = IF id \in DOMAIN factories
                THEN [op |-> "Instantiate", id |-> id, err |-> NoError,
                      instance |-> factories[id].makes]
                ELSE [op |-> "Instantiate", id |-> id, err |-> UnknownDriver(id),
                      instance |-> NilDriver]
    /\ UNCHANGED <<factories, rlVars, cacheVars, envVars, conVars, heapVars>>

\* InboundCacheDriver.Init on the instance just made.
DriverInit ==
    /\ regOp.op = "Instantiate"
    /\ regOp.err = NoError
    /\ ~regOp.instance.initialised
    /\ regOp' = [regOp EXCEPT !.instance.MaxAge = MaxAge,
                              !.instance.initialised = TRUE]
    /\ UNCHANGED <<factories, rlVars, cacheVars, envVars, conVars, heapVars>>

InitRegistry ==
    /\ call = NoCall
    /\ ret = Pending
    /\ driverLog = <<>>
    /\ Entries = <<>>
    /\ stores = <<>>
    /\ lastOp = NoOp
    /\ InitEnvVars /\ InitRegVars /\ InitConVars /\ InitHeapVars

NextRegistry ==
    \/ \E factory \in Factories : RegistryAdd(factory)
    \/ \E id \in PluginTypeIDs : RegistryInstantiate(id)
    \/ DriverInit

SpecRegistry == InitRegistry /\ [][NextRegistry]_vars

-----------------------------------------------------------------------------
(* Denials of several requests: the envelopes as objects behind pointers *)

\* The address of an envelope shared by all denials (mutant of NewAddress).
NewAddress_Shared(h) == 1

\* The address &RegistryV2Error{...} yields: an object no earlier allocation
\* has.
NewAddress(h) == Len(h) + 1

\* The heap with the object at addr set to e.
HeapPut(h, addr, e) ==
    [a \in (DOMAIN h) \cup {addr} |-> IF a = addr THEN e ELSE h[a]]

\* What the driver answers to the denied requests.
DeniedRetryAfters == {0, Second + 500, 2 * Second}

\* A request before its CheckRateLimit call.
IdleRequest == [pc |-> "idle"]

\* CheckRateLimit of request r, denied by the driver: ErrTooManyRequests.With("")
\* allocates the envelope.
DenyBuild(r, retryAfter) ==
    /\ reqs[r].pc = "idle"
    /\ heap' = HeapPut(heap, NewAddress(heap), With(ErrTooManyRequests, ""))
    /\ reqs' = [reqs EXCEPT ![r] = [pc |-> "built", RetryAfter |-> retryAfter,
                                    addr |-> NewAddress(heap)]]
    /\ UNCHANGED <<rlVars, cacheVars, envVars, regVars, conVars>>

\* CheckRateLimit of request r: WithHeader("Retry-After", retryAfterStr) on the
\* envelope, which is returned.
DenyReturn(r) ==
    /\ reqs[r].pc = "built"
    /\ heap' = [heap EXCEPT ![reqs[r].addr] =
                   WithHeader(@, "Retry-After",
                       <<FormatUint(AtLeastZero(GoDiv(reqs[r].RetryAfter, Second)))>>)]
    /\ reqs' = [reqs EXCEPT ![r] = [pc |-> "returned", RetryAfter |-> reqs[r].RetryAfter,
                                    addr |-> reqs[r].addr, status |-> 0,
                                    detail |-> NilDetail, traced |-> FALSE]]
    /\ UNCHANGED <<rlVars, cacheVars, envVars, regVars, conVars>>

\* The handler of request r calls WithStatus on the envelope it received.
HandlerWithStatus(r, status) ==
    /\ reqs[r].pc = "returned"
    /\ heap' = [heap EXCEPT ![reqs[r].addr] = WithStatus(@, status)]
    /\ reqs' = [reqs EXCEPT ![r].status = status]
    /\ UNCHANGED <<rlVars, cacheVars, envVars, regVars, conVars>>

\* The handler of request r calls WithDetail on the envelope it received.
HandlerWithDetail(r, detail) ==
    /\ reqs[r].pc = "returned"
    /\ heap' = [heap EXCEPT ![reqs[r].addr] = WithDetail(@, detail)]
    /\ reqs' = [reqs EXCEPT ![r].detail = detail]
    /\ UNCHANGED <<rlVars, cacheVars, envVars, regVars, conVars>>

\* The handler of request r calls WithHeader on the envelope it received.
HandlerWithHeader(r) ==
    /\ reqs[r].pc = "returned"
    /\ heap' = [heap EXCEPT ![reqs[r].addr] = WithHeader(@, "X-Request-Id", <<r>>)]
    /\ reqs' = [reqs EXCEPT ![r].traced = TRUE]
    /\ UNCHANGED <<rlVars, cacheVars, envVars, regVars, conVars>>

InitDenials ==
    /\ call = NoCall
    /\ ret = Pending
    /\ driverLog = <<>>
    /\ Entries = <<>>
    /\ stores = <<>>
    /\ lastOp = NoOp
    /\ InitEnvVars /\ InitRegVars /\ InitConVars
    /\ heap = <<>>
    /\ reqs = [r \in Requests |-> IdleRequest]

NextDenials ==
    \/ \E r \in Requests, retryAfter \in DeniedRetryAfters : DenyBuild(r, retryAfter)
    \/ \E r \in Requests : DenyReturn(r)
    \/ \E r \in Requests : HandlerWithStatus(r, StatusServiceUnavailable)
    \/ \E r \in Requests : HandlerWithDetail(r, <<"quota of " \o r>>)
    \/ \E r \in Requests : HandlerWithHeader(r)

SpecDenials == InitDenials /\ [][NextDenials]_vars

-----------------------------------------------------------------------------
(* Claims about the error envelope, checked under SpecEnvelope *)

\* The error is an envelope, or wraps one at depth one or two.
CarriesEnvelope(err) ==
    \/ err.kind = "RegistryV2Error"
    \/ err.kind = "wrapped" /\ err.inner.kind = "RegistryV2Error"
    \/ err.kind = "wrapped" /\ err.inner.kind = "wrapped"
          /\ err.inner.inner.kind = "RegistryV2Error"

\* The envelope such an error carries.
CarriedEnvelope(err) ==
    IF err.kind = "RegistryV2Error" THEN err
    ELSE IF err.inner.kind = "RegistryV2Error" THEN err.inner
    ELSE err.inner.inner

\* AsRegistryV2Error has just been applied, or its result has been written.
Converted == origin.how = "As"

\* C12 as stated: an error that is not an envelope comes back as UNKNOWN,
\* written with status 500, with Message equal to the error's text, the empty
\* text included; an envelope, direct or wrapped, comes back unchanged.
C12_Original ==
    Converted =>
        IF CarriesEnvelope(origin.err)
        THEN env = CarriedEnvelope(origin.err)
        ELSE /\ env.Code = "UNKNOWN"
             /\ \A i \in 1..Len(written) : written[i].status = 500
             /\ env.Message = origin.err.text

\* C12, amended: an error that is not an envelope comes back as UNKNOWN,
\* written with status 500; its Message is the error's text when that text is
\* not empty, and the default message "unknown error" when it is empty.  An
\* envelope, direct or wrapped, comes back unchanged.
C12_ConvertedEnvelope ==
    Converted =>
        IF CarriesEnvelope(origin.err)
        THEN env = CarriedEnvelope(origin.err)
        ELSE /\ env.Code = "UNKNOWN"
             /\ env.Status = 0
             /\ \A i \in 1..Len(written) : written[i].status = 500
             /\ origin.err.text # "" => env.Message = origin.err.text
             /\ origin.err.text = "" => env.Message = "unknown error"

\* An error with an empty text has been converted and written.
C12_Witness ==
    /\ Converted
    /\ origin.err = PlainError("")
    /\ env.Message = "unknown error"
    /\ Len(written) > 0

\* The status the tables and the override give for the envelope as built.
ResolvedStatus(e) == IF e.Status # 0 THEN e.Status ELSE apiErrorStatusCodes[e.Code]

\* C13: the status is resolved only when the envelope is written: each of the
\* three writers writes the override if one is set and the code's table
\* status otherwise, and leaves the envelope as it was, so that writing the
\* same envelope again gives the same status.
C13_StatusResolvedAtWrite ==
    written # <<>> =>
        /\ env = origin.built
        /\ \A i \in 1..Len(written) : written[i].status = ResolvedStatus(origin.built)
        /\ \A i \in 1..Len(written), j \in 1..Len(written) :
              written[i].status = written[j].status

\* An envelope without an override has been written by two different writers,
\* one of them the auth writer.
C13_Witness ==
    /\ Len(written) = 2
    /\ written[1].writer # written[2].writer
    /\ written[1].writer = "Auth" \/ written[2].writer = "Auth"
    /\ env.Status = 0
    /\ env.Code = "TOOMANYREQUESTS"
    /\ written[2].status = 429

\* An envelope has just been built by With alone.
BuiltFromCode == origin.how = "With"

\* C14: every code has one default status and one non-empty default message;
\* With("") gives an envelope with that message and no override, written with
\* that status: MANIFEST_UNKNOWN 404 "manifest unknown", DENIED 401,
\* TOOMANYREQUESTS 429, UNKNOWN 500.
C14_Defaults ==
    /\ DOMAIN apiErrorMessages = RegistryV2ErrorCodes
    /\ DOMAIN apiErrorStatusCodes = RegistryV2ErrorCodes
    /\ (BuiltFromCode /\ origin.msg = "") =>
          /\ env.Code = origin.code
          /\ env.Message # ""
          /\ env.Message = apiErrorMessages[origin.code]
          /\ env.Status = 0
          /\ \A i \in 1..Len(written) : written[i].status = apiErrorStatusCodes[origin.code]
          /\ origin.code = "MANIFEST_UNKNOWN" =>
                /\ env.Message = "manifest unknown"
                /\ \A i \in 1..Len(written) : written[i].status = 404
          /\ origin.code = "DENIED" =>
                \A i \in 1..Len(written) : written[i].status = 401
          /\ origin.code = "TOOMANYREQUESTS" =>
                \A i \in 1..Len(written) : written[i].status = 429
          /\ origin.code = "UNKNOWN" =>
                \A i \in 1..Len(written) : written[i].status = 500

\* MANIFEST_UNKNOWN.With("") has been written.
C14_Witness ==
    /\ BuiltFromCode
    /\ origin.msg = ""
    /\ origin.code = "MANIFEST_UNKNOWN"
    /\ Len(written) > 0
    /\ written[1].status = 404

\* C15: the Registry V2 writer writes the envelope's headers and the status
\* for every request method, and the JSON body exactly when the method is not
\* HEAD.
C15_HeadHasNoBody ==
    \A i \in 1..Len(written) :
        written[i].writer = "RegistryV2" =>
            /\ written[i].status = ResolvedStatus(origin.built)
            /\ \A k \in DOMAIN origin.built.Headers :
                  k \in DOMAIN written[i].headers
                      /\ written[i].headers[k] = origin.built.Headers[k]
            /\ "Content-Type" \in DOMAIN written[i].headers
            /\ written[i].bodyWritten <=> written[i].method # "HEAD"
            /\ written[i].bodyWritten =>
                  written[i].body =
                      [errors |-> <<[code |-> origin.built.Code,
                                     message |-> origin.built.Message,
                                     detail |-> origin.built.Detail]>>]

\* An envelope with a Retry-After header has been written for a HEAD and for
\* a GET request.
C15_Witness ==
    /\ Len(written) = 2
    /\ written[1].writer = "RegistryV2" /\ written[1].method = "HEAD"
    /\ written[2].writer = "RegistryV2" /\ written[2].method = "GET"
    /\ "Retry-After" \in DOMAIN written[1].headers
    /\ ~written[1].bodyWritten
    /\ written[2].bodyWritten

-----------------------------------------------------------------------------
(* Claims about the driver registry, checked under SpecRegistry *)

\* C16: after a factory is registered under an id, instantiating that id
\* returns an instance whose PluginTypeID is the id ("unittest" for the test
\* inbound cache driver); instantiating an id that was never registered fails
\* with the unknown-driver error; registering an id a second time fails and
\* leaves the first factory in place.
C16_RegistryLookup ==
    /\ \A id \in DOMAIN factories : TypeIDOf(factories[id].makes) = id
    /\ (regOp.op = "Add" /\ ~regOp.panicked) =>
          /\ regOp.id \notin DOMAIN regOp.before
          /\ regOp.id \in DOMAIN factories
          /\ factories[regOp.id] = regOp.factory
          /\ \A id \in DOMAIN regOp.before : factories[id] = regOp.before[id]
          /\ regOp.factory.makes.type = "test.InboundCacheDriver" => regOp.id = "unittest"
    /\ (regOp.op = "Add" /\ regOp.panicked) =>
          /\ regOp.id \in DOMAIN regOp.before
          /\ factories = regOp.before
    /\ (regOp.op = "Instantiate" /\ regOp.id \in DOMAIN factories) =>
          /\ regOp.err = NoError
          /\ regOp.instance.type # "nil"
          /\ TypeIDOf(regOp.instance) = regOp.id
          /\ regOp.instance.type = "test.InboundCacheDriver" <=> regOp.id = "unittest"
    /\ (regOp.op = "Instantiate" /\ regOp.id \notin DOMAIN factories) =>
          /\ regOp.err = UnknownDriver(regOp.id)
          /\ regOp.instance = NilDriver

\* The test driver has been registered and "unittest" has been instantiated.
C16_Witness ==
    /\ regOp.op = "Instantiate"
    /\ regOp.id = "unittest"
    /\ regOp.err = NoError
    /\ regOp.instance.type = "test.InboundCacheDriver"
    /\ factories["unittest"].site = "test.init"

-----------------------------------------------------------------------------
(* The driver calls of CheckRateLimit, checked under SpecRateLimit *)

\* C17: a CheckRateLimit call asks the driver's RateLimitAllows at most once:
\* once for a caller that is not exempt on a configured engine, also when the
\* driver answers with an error or a cancellation, and never for a nil engine
\* or for PeerUser or TrivyUser.
C17_DriverAskedAtMostOnce ==
    /\ Len(driverLog) <= 1
    /\ ~Returned => driverLog = <<>>
    /\ (Returned /\ call.rle = ConfiguredEngine
                 /\ call.userType \notin {PeerUser, TrivyUser}) =>
          driverLog = <<[account |-> call.account, action |-> call.action,
                         amount |-> call.amount]>>
    /\ (Returned /\ (call.rle = NilEngine \/ call.userType \in {PeerUser, TrivyUser})) =>
          driverLog = <<>>

\* A call that the driver answered with a cancellation has returned, the
\* driver asked once.
C17_Witness ==
    /\ NonExemptCall
    /\ call.err = PlainError("context canceled")
    /\ ret = call.err
    /\ Len(driverLog) = 1

-----------------------------------------------------------------------------
(* The frame of the cache operations, checked under SpecCache *)

\* C18: LoadManifest never changes the entry table, on a hit, on a miss or on
\* an expired entry; StoreManifest(k, ...) changes the entry of k only; no
\* step removes a key.
C18_Frame ==
    [][ /\ DOMAIN Entries \subseteq DOMAIN Entries'
        /\ stores' = stores => Entries' = Entries
        /\ stores' # stores =>
              /\ stores' = Append(stores, stores'[Len(stores')])
              /\ DOMAIN Entries' = (DOMAIN Entries) \cup {stores'[Len(stores')].location}
              /\ \A k \in DOMAIN Entries :
                    k # stores'[Len(stores')].location => Entries'[k] = Entries[k] ]_vars

\* An expired entry has been loaded, a miss, and it is still in the table
\* next to the other key's entry.
C18_Witness ==
    /\ Loaded
    /\ lastOp.err # NoError
    /\ lastOp.location \in DOMAIN Entries
    /\ ~After(Entries[lastOp.location].InsertedAt, Add(lastOp.now, -MaxAge))
    /\ DOMAIN Entries = ImageReferences

-----------------------------------------------------------------------------
(* Claims about the envelopes of several denials, checked under SpecDenials *)

\* The requests that have an envelope.
Denied == { r \in Requests : reqs[r].pc # "idle" }

\* The value of Retry-After for the driver's answer d.
RetryAfterHeader(d) == <<FormatUint(FloorSeconds(d))>>

\* C19: every denial builds a fresh envelope: two denied calls hold distinct
\* envelopes, each with the Retry-After of its own driver result, and the
\* decorations one request makes (WithStatus, WithDetail, WithHeader) show in
\* its own envelope only.
C19_FreshEnvelope ==
    /\ \A r \in Denied, q \in Denied : r # q => reqs[r].addr # reqs[q].addr
    /\ \A r \in Denied : reqs[r].addr \in DOMAIN heap
    /\ \A r \in Requests :
          reqs[r].pc = "returned" =>
              LET e == heap[reqs[r].addr]
              IN  /\ e.Code = "TOOMANYREQUESTS"
                  /\ e.Message = "too many requests; please slow down"
                  /\ "Retry-After" \in DOMAIN e.Headers
                  /\ e.Headers["Retry-After"] = RetryAfterHeader(reqs[r].RetryAfter)
                  /\ e.Status = reqs[r].status
                  /\ e.Detail = reqs[r].detail
                  /\ ("X-Request-Id" \in DOMAIN e.Headers) <=> reqs[r].traced
                  /\ reqs[r].traced => e.Headers["X-Request-Id"] = <<r>>

\* Two requests were denied with different driver results, and one of them
\* has decorated its envelope.
C19_Witness ==
    /\ \A r \in Requests : reqs[r].pc = "returned"
    /\ reqs["r1"].RetryAfter # reqs["r2"].RetryAfter
    /\ heap[reqs["r1"].addr].Headers["Retry-After"] # heap[reqs["r2"].addr].Headers["Retry-After"]
    /\ reqs["r1"].status = 503
    /\ reqs["r2"].status = 0
    /\ heap[reqs["r2"].addr].Status = 0

====
